---- MODULE Spec2Model ----
(***************************************************************************)
(* Response selection of the mock server: ResponseRulesInterpreter.        *)
(*                                                                         *)
(* The interpreter is built from the route's candidate responses, the      *)
(* request and the two mode flags (the constructor extracts the rule       *)
(* targets from the request), and chooseResponse(requestNumber) is then    *)
(* called with the route's request counter.                                *)
(*                                                                         *)
(* Texts (rule values, modifiers, bodies, header names and values) are     *)
(* sequences of one-character strings, so that String(), includes(),       *)
(* the path split and the pattern match are computed, not looked up.       *)
(* JavaScript values are tagged records: [t |-> tag] or [t |-> tag, v].    *)
(***************************************************************************)
EXTENDS Integers, Sequences, FiniteSets, TLC

VARIABLES
  routeResponses,      \* this.routeResponses: sequence of [rules, rulesOperator]
  request,             \* this.request
  randomResponse,      \* this.randomResponse
  sequentialResponse,  \* this.sequentialResponse
  targets,             \* this.targets, set by extractTargets in the constructor
  requestNumber,       \* the counter handed to the last chooseResponse call (0: no call yet)
  lastResult           \* outcome of the last chooseResponse call

vars == <<routeResponses, request, randomResponse, sequentialResponse,
          targets, requestNumber, lastResult>>

----------------------------------------------------------------------------
(* Bounds *)

MaxResponses == 2        \* longest candidate list
MaxRules == 2            \* longest rule list of a candidate
MaxRequestNumber == 4    \* highest counter value handed to chooseResponse
RandomGrain == 4         \* Math.random() yields k / RandomGrain, k in 0..RandomGrain-1

----------------------------------------------------------------------------
(* JavaScript values *)

Undefined == [t |-> "undefined"]
Null == [t |-> "null"]
Str(s) == [t |-> "string", v |-> s]
Num(n) == [t |-> "number", v |-> n]
Bool(b) == [t |-> "boolean", v |-> b]
Arr(s) == [t |-> "array", v |-> s]
Obj(f) == [t |-> "object", v |-> f]
EmptyObject == Obj(<<>>)

Digit == <<"0", "1", "2", "3", "4", "5", "6", "7", "8", "9">>

IsDigit(c) == \E i \in 1..10 : Digit[i] = c

DigitVal(c) == (CHOOSE i \in 1..10 : Digit[i] = c) - 1

RECURSIVE NumToStr(_)
\* Number.prototype.toString for a natural number
NumToStr(n) ==
  IF n < 10 THEN <<Digit[n + 1]>>
  ELSE NumToStr(n \div 10) \o <<Digit[(n % 10) + 1]>>

RECURSIVE StrToNum(_)
\* parseInt of a text made of digits
StrToNum(s) ==
  IF s = <<>> THEN 0
  ELSE 10 * StrToNum(SubSeq(s, 1, Len(s) - 1)) + DigitVal(s[Len(s)])

RECURSIVE Join(_)
\* Array.prototype.join(',') over texts
Join(ss) ==
  IF ss = <<>> THEN <<>>
  ELSE IF Len(ss) = 1 THEN ss[1]
  ELSE ss[1] \o <<",">> \o Join(Tail(ss))

RECURSIVE String(_)
\* String(value)
String(x) ==
  CASE x.t = "string" -> x.v
    [] x.t = "number" -> NumToStr(x.v)
    [] x.t = "boolean" -> IF x.v THEN <<"t", "r", "u", "e">> ELSE <<"f", "a", "l", "s", "e">>
    [] x.t = "null" -> <<"n", "u", "l", "l">>
    [] x.t = "undefined" -> <<"u", "n", "d", "e", "f", "i", "n", "e", "d">>
    [] x.t = "array" ->
         Join([i \in 1..Len(x.v) |->
                 IF x.v[i].t \in {"null", "undefined"} THEN <<>> ELSE String(x.v[i])])
    [] x.t = "object" ->
         <<"[", "o", "b", "j", "e", "c", "t", " ", "O", "b", "j", "e", "c", "t", "]">>

\* a === b for the values compared by Array.prototype.includes (objects and
\* arrays are compared by identity: the rule value is never the same object)
StrictEquals(a, b) ==
  /\ a.t = b.t
  /\ a.t \in {"string", "number", "boolean", "null", "undefined"}
  /\ (a.t \in {"string", "number", "boolean"} => a.v = b.v)

\* String.prototype.includes
Includes(s, sub) ==
  \E i \in 0..(Len(s) - Len(sub)) : SubSeq(s, i + 1, i + Len(sub)) = sub

Lower(c) ==
  CASE c = "C" -> "c"
    [] c = "T" -> "t"
    [] c = "A" -> "a"
    [] OTHER -> c

\* String.prototype.toLowerCase
ToLowerCase(s) == [i \in 1..Len(s) |-> Lower(s[i])]

----------------------------------------------------------------------------
(* object-path get *)

RECURSIVE Split(_, _)
\* path.split('.') continued: cur is the segment read so far
Split(s, cur) ==
  IF s = <<>> THEN <<cur>>
  ELSE IF Head(s) = "." THEN <<cur>> \o Split(Tail(s), <<>>)
  ELSE Split(Tail(s), Append(cur, Head(s)))

\* getKey: a segment that is the text of an integer is an index
IsIntKey(seg) ==
  /\ seg # <<>>
  /\ \A i \in 1..Len(seg) : IsDigit(seg[i])
  /\ NumToStr(StrToNum(seg)) = seg

LengthKey == <<"l", "e", "n", "g", "t", "h">>

\* the element of a text or an array that an index segment names
\* (index is undefined for a segment that is no index)
Indexed(obj, seg, isIndex, index) ==
  IF isIndex
  THEN IF index < Len(obj.v)
       THEN IF obj.t = "array" THEN obj.v[index + 1] ELSE Str(<<obj.v[index + 1]>>)
       ELSE Undefined
  ELSE IF seg = LengthKey THEN Num(Len(obj.v)) ELSE Undefined

\* getShallowProperty: the own property of obj named by the segment
ShallowProperty(obj, seg) ==
  IF obj.t = "object"
  THEN IF seg \in DOMAIN obj.v THEN obj.v[seg] ELSE Undefined
  ELSE IF obj.t \in {"array", "string"}
  THEN Indexed(obj, seg, IsIntKey(seg), IF IsIntKey(seg) THEN StrToNum(seg) ELSE -1)
  ELSE Undefined

RECURSIVE PathGet(_, _)

\* one step of the walk: next is the property the first segment names
PathStep(segs, next) ==
  IF next.t = "undefined" THEN Undefined
  ELSE IF Len(segs) = 1 THEN next
  ELSE PathGet(next, Tail(segs))

PathGet(obj, segs) ==
  IF segs = <<>> THEN obj
  ELSE IF obj.t \in {"null", "undefined"} THEN Undefined
  ELSE PathStep(segs, ShallowProperty(obj, Head(segs)))

\* objectPathGet(obj, path) for a text path
objectPathGet(obj, path) ==
  IF path = <<>> THEN obj ELSE PathGet(obj, Split(path, <<>>))

----------------------------------------------------------------------------
(* new RegExp(pattern) and RegExp.prototype.test, for the patterns made of  *)
(* literal characters, '.', a leading '^', a trailing '$' and '['; a '['    *)
(* that no ']' closes is a SyntaxError.                                    *)

RegExpCompiles(p) ==
  \A i \in 1..Len(p) : p[i] = "[" => \E j \in (i + 1)..Len(p) : p[j] = "]"

AnchoredStart(p) == p # <<>> /\ Head(p) = "^"

AnchoredEnd(p) == p # <<>> /\ p[Len(p)] = "$"

PatternBody(p) ==
  SubSeq(p, IF AnchoredStart(p) THEN 2 ELSE 1,
            IF AnchoredEnd(p) THEN Len(p) - 1 ELSE Len(p))

\* the pattern body matches the text at offset i (0-based)
MatchesAt(b, s, i) ==
  /\ i + Len(b) <= Len(s)
  /\ \A k \in 1..Len(b) : b[k] = "." \/ b[k] = s[i + k]

\* regex.test(text), for a pattern that compiles
RegExpTest(p, s) ==
  LET b == PatternBody(p)
  IN \E i \in 0..Len(s) :
       /\ MatchesAt(b, s, i)
       /\ AnchoredStart(p) => i = 0
       /\ AnchoredEnd(p) => i + Len(b) = Len(s)

----------------------------------------------------------------------------
(* The request *)

ContentTypeName == <<"C", "o", "n", "t", "e", "n", "t", "-", "T", "y", "p", "e">>
FormUrlencoded ==
  <<"a", "p", "p", "l", "i", "c", "a", "t", "i", "o", "n", "/", "x", "-", "w", "w", "w", "-",
    "f", "o", "r", "m", "-", "u", "r", "l", "e", "n", "c", "o", "d", "e", "d">>
ApplicationJson ==
  <<"a", "p", "p", "l", "i", "c", "a", "t", "i", "o", "n", "/", "j", "s", "o", "n">>
ApplicationXml ==
  <<"a", "p", "p", "l", "i", "c", "a", "t", "i", "o", "n", "/", "x", "m", "l">>
TextXml == <<"t", "e", "x", "t", "/", "x", "m", "l">>

\* request.header(name): case-insensitive lookup, undefined when not sent
header(req, name) ==
  IF ToLowerCase(name) \in DOMAIN req.headers
  THEN Str(req.headers[ToLowerCase(name)])
  ELSE Undefined

\* the Content-Type tests of extractTargets
isParsedContentType(requestContentType) ==
  /\ requestContentType.t = "string"
  /\ requestContentType.v # <<>>
  /\ \/ Includes(requestContentType.v, FormUrlencoded)
     \/ Includes(requestContentType.v, ApplicationJson)
     \/ Includes(requestContentType.v, ApplicationXml)
     \/ Includes(requestContentType.v, TextXml)

\* extractTargets binding the parsed body whatever the Content-Type is
extractTargetsAnyContentType(req) ==
  [body |-> req.parsedBody,
   query |-> req.query,
   params |-> req.params,
   bodyRaw |-> Str(req.body)]

extractTargets(req) ==
  LET requestContentType == header(req, ContentTypeName)
      body == IF isParsedContentType(requestContentType)
              THEN req.parsedBody
              ELSE EmptyObject
  IN [body |-> body,
      query |-> req.query,
      params |-> req.params,
      bodyRaw |-> Str(req.body)]

\* this.targets[rule.target]
targetOf(tg, target) ==
  CASE target = "body" -> tg.body
    [] target = "query" -> tg.query
    [] target = "params" -> tg.params
    [] target = "bodyRaw" -> tg.bodyRaw
    [] OTHER -> Undefined

----------------------------------------------------------------------------
(* isValidRule *)

\* the value read from the rule's target (lines 82-101); the cookie rule
\* without modifier is answered before
resolveValue(rule, n, req, tg) ==
  LET value == IF rule.target = "request_number" THEN Num(n) ELSE Undefined
  IN IF rule.target = "cookie"
     THEN IF req.cookies.t = "object"
          THEN IF rule.modifier \in DOMAIN req.cookies.v
               THEN req.cookies.v[rule.modifier]
               ELSE Undefined
          ELSE req.cookies
     ELSE IF rule.target = "header"
     THEN header(req, rule.modifier)
     ELSE IF rule.modifier # <<>>
     THEN objectPathGet(targetOf(tg, rule.target), rule.modifier)
     ELSE IF rule.target = "body"
     THEN tg.bodyRaw
     ELSE value

\* value.some((arrayValue) => regex.test(arrayValue)) / regex.test(value)
regexMatches(pattern, value) ==
  IF value.t = "array"
  THEN \E i \in 1..Len(value.v) : RegExpTest(pattern, String(value.v[i]))
  ELSE RegExpTest(pattern, String(value))

\* value.includes(rule.value)
arrayIncludes(value, ruleValue) ==
  \E i \in 1..Len(value.v) : StrictEquals(value.v[i], ruleValue)

\* the comparison of lines 115-139 on a defined value: v is the value and r
\* the rule once a null is replaced by the empty text; out is "true",
\* "false" or "throw", rule the rule afterwards
compareNormalized(value, v, r) ==
  IF r.operator = "regex"
  THEN IF ~RegExpCompiles(String(r.value))
       THEN [out |-> "throw", value |-> value, rule |-> r]
       ELSE [out |-> IF regexMatches(String(r.value), v) THEN "true" ELSE "false",
             value |-> value, rule |-> r]
  ELSE IF v.t = "array"
  THEN [out |-> IF arrayIncludes(v, r.value) THEN "true" ELSE "false",
        value |-> value, rule |-> r]
  ELSE [out |-> IF String(v) = String(r.value) THEN "true" ELSE "false",
        value |-> value, rule |-> r]

\* lines 103-139: the operator applied to the resolved value
applyOperator(rule, value) ==
  IF rule.operator = "null" /\ rule.modifier # <<>>
  THEN [out |-> IF value.t \in {"null", "undefined"} THEN "true" ELSE "false",
        value |-> value, rule |-> rule]
  ELSE IF rule.operator = "empty_array" /\ rule.modifier # <<>>
  THEN [out |-> IF value.t = "array" /\ Len(value.v) < 1 THEN "true" ELSE "false",
        value |-> value, rule |-> rule]
  ELSE IF value.t = "undefined"
  THEN [out |-> "false", value |-> value, rule |-> rule]
  ELSE compareNormalized(value,
                         IF value.t = "null" THEN Str(<<>>) ELSE value,
                         IF rule.value.t = "null"
                         THEN [rule EXCEPT !.value = Str(<<>>)]
                         ELSE rule)

\* isValidRule(rule, requestNumber): [out, value, rule], value the resolved
\* value (undefined when the rule is answered before any is read)
isValidRule(rule, n, req, tg) ==
  IF rule.target = ""
  THEN [out |-> "false", value |-> Undefined, rule |-> rule]
  ELSE IF rule.target = "cookie" /\ rule.modifier = <<>>
  THEN [out |-> "false", value |-> Undefined, rule |-> rule]
  ELSE applyOperator(rule, resolveValue(rule, n, req, tg))

----------------------------------------------------------------------------
(* chooseResponse *)

RECURSIVE evalRules(_, _, _, _, _, _, _, _)
RECURSIVE findResponse(_, _, _, _, _, _)

\* one step of rules.every / rules.some: r is what isValidRule answered for
\* rule i.  The rule is written back (isValidRule may have assigned its
\* value) and one entry is logged: the rule as handed in, the value it
\* resolved to, and the answer.
afterRule(rules, i, isAnd, n, req, tg, resp, log, r) ==
  IF r.out = "throw" \/ (isAnd /\ r.out = "false") \/ (~isAnd /\ r.out = "true")
  THEN [out |-> r.out,
        rules |-> [rules EXCEPT ![i] = r.rule],
        log |-> Append(log, [response |-> resp, rule |-> rules[i],
                             value |-> r.value, out |-> r.out])]
  ELSE evalRules([rules EXCEPT ![i] = r.rule], i + 1, isAnd, n, req, tg, resp,
                 Append(log, [response |-> resp, rule |-> rules[i],
                              value |-> r.value, out |-> r.out]))

\* rules.every(...) when isAnd, rules.some(...) otherwise, from rule i on:
\* stops at the first rule that decides, or that throws
evalRules(rules, i, isAnd, n, req, tg, resp, log) ==
  IF i > Len(rules)
  THEN [out |-> IF isAnd THEN "true" ELSE "false", rules |-> rules, log |-> log]
  ELSE afterRule(rules, i, isAnd, n, req, tg, resp, log,
                 isValidRule(rules[i], n, req, tg))

\* one step of routeResponses.find: e is what the rules of candidate i
\* (1-based) combined to
afterCandidate(resps, i, n, req, tg, e) ==
  IF e.out = "throw"
  THEN [threw |-> TRUE, index |-> -1,
        responses |-> [resps EXCEPT ![i].rules = e.rules], log |-> e.log]
  ELSE IF e.out = "true"
  THEN [threw |-> FALSE, index |-> i - 1,
        responses |-> [resps EXCEPT ![i].rules = e.rules], log |-> e.log]
  ELSE findResponse([resps EXCEPT ![i].rules = e.rules], i + 1, n, req, tg, e.log)

\* routeResponses.find(...) from candidate i (1-based) on: index is the
\* 0-based index found, -1 for undefined; threw when a rule threw
findResponse(resps, i, n, req, tg, log) ==
  IF i > Len(resps)
  THEN [threw |-> FALSE, index |-> -1, responses |-> resps, log |-> log]
  ELSE IF Len(resps[i].rules) = 0
  THEN findResponse(resps, i + 1, n, req, tg, log)
  ELSE afterCandidate(resps, i, n, req, tg,
                      evalRules(resps[i].rules, 1, resps[i].rulesOperator = "AND",
                                n, req, tg, i - 1, log))

\* selectionMode with the two flags tested in the other order
selectionModeSequentialFirst(random, sequential) ==
  IF sequential THEN "sequential"
  ELSE IF random THEN "random"
  ELSE "rules"

\* which branch of chooseResponse runs
selectionMode(random, sequential) ==
  IF random THEN "random"
  ELSE IF sequential THEN "sequential"
  ELSE "rules"

\* Math.floor(Math.random() * length), Math.random() being draw / RandomGrain
randomStatus(draw, length) == (draw * length) \div RandomGrain

\* sequentialIndex without the shift to a 0-based counter
sequentialIndexUnshifted(n, length) ==
  IF length = 0 THEN -1 ELSE n % length

\* (requestNumber - 1) % length; NaN (here -1) when length is 0
sequentialIndex(n, length) ==
  IF length = 0 THEN -1 ELSE (n - 1) % length

\* what "return this.routeResponses[index]" hands back
returned(mode, resps, index, draw, log) ==
  [mode |-> mode,
   kind |-> IF index \in 0..(Len(resps) - 1) THEN "returned" ELSE "undefined",
   index |-> IF index \in 0..(Len(resps) - 1) THEN index ELSE -1,
   draw |-> draw,
   evaluations |-> log]

threw(mode, log) ==
  [mode |-> mode, kind |-> "threw", index |-> -1, draw |-> -1, evaluations |-> log]

\* lines 63-67 on what find answered: the result and the candidate list
\* afterwards
afterFind(f) ==
  [result |-> IF f.threw THEN threw("rules", f.log)
              ELSE returned("rules", f.responses,
                            IF f.index = -1 THEN 0 ELSE f.index, -1, f.log),
   responses |-> f.responses]

\* the rule-based branch
chooseByRules(resps, n, req, tg) ==
  afterFind(findResponse(resps, 1, n, req, tg, <<>>))

----------------------------------------------------------------------------
(* Inputs: rules, candidate lists and requests *)

SeqsUpTo(S, n) == UNION {[1..k -> S] : k \in 0..n}

TextEmpty == <<>>
Text1 == <<"1">>
TextX == <<"x">>
TextA == <<"a">>
TextB == <<"b">>
TextA0 == <<"a", ".", "0">>
PatternOne == <<"^", "1", "$">>
PatternBad == <<"[">>

RuleTargets == {"", "body", "query", "params", "header", "cookie", "request_number"}
RuleModifiers == {TextEmpty, TextA, TextA0, TextB}
RuleOperators == {"equals", "regex", "null", "empty_array"}
RuleValues == {Null, Str(TextEmpty), Str(Text1), Str(TextX), Str(PatternOne), Str(PatternBad)}

\* every rule over the texts above
Rules == [target : RuleTargets, modifier : RuleModifiers,
          operator : RuleOperators, value : RuleValues]

Rule(target, modifier, operator, value) ==
  [target |-> target, modifier |-> modifier, operator |-> operator, value |-> value]

\* the rules of the longer candidate lists: one that is true on the first
\* call only, one whose pattern does not compile
FirstCallRule == Rule("request_number", TextEmpty, "equals", Str(Text1))
BadPatternRule == Rule("body", TextEmpty, "regex", Str(PatternBad))
SelectorRules == {FirstCallRule, BadPatternRule}

Candidates(rules) ==
  [rules : SeqsUpTo(rules, MaxRules), rulesOperator : {"AND", "OR"}]

\* one candidate holding one rule, the rule being any rule
SingleRuleRoutes ==
  {<<[rules |-> <<r>>, rulesOperator |-> "OR"]>> : r \in Rules}

\* up to MaxResponses candidates of up to MaxRules rules each
SelectorRoutes == SeqsUpTo(Candidates(SelectorRules), MaxResponses)

TextPlain == <<"t", "e", "x", "t", "/", "p", "l", "a", "i", "n">>
ContentTypes == {Undefined, Str(ApplicationJson), Str(TextXml), Str(TextPlain)}

\* the raw body and what the body parser made of it
Payloads ==
  { [body |-> <<"{", "\"", "a", "\"", ":", "[", "1", "]", "}">>,
     parsedBody |-> Obj(TextA :> Arr(<<Num(1)>>))],
    [body |-> <<"{", "\"", "a", "\"", ":", "[", "]", "}">>,
     parsedBody |-> Obj(TextA :> Arr(<<>>))],
    [body |-> <<"{", "\"", "a", "\"", ":", "n", "u", "l", "l", "}">>,
     parsedBody |-> Obj(TextA :> Null)],
    [body |-> <<"{", "\"", "a", "\"", ":", "\"", "1", "\"", "}">>,
     parsedBody |-> Obj(TextA :> Str(Text1))],
    [body |-> TextX, parsedBody |-> Undefined],
    [body |-> TextEmpty, parsedBody |-> Undefined] }

\* query, path parameters, cookies and the other headers
Surroundings ==
  { [query |-> Obj(TextA :> Str(Text1)), params |-> Obj(TextA :> Str(Text1)),
     cookies |-> Obj(TextA :> Str(Text1)), headers |-> (TextA :> Text1)],
    [query |-> Obj(TextA :> Arr(<<Str(TextX), Str(Text1)>>)), params |-> EmptyObject,
     cookies |-> Undefined, headers |-> <<>>] }

Request(contentType, payload, around) ==
  [headers |-> IF contentType.t = "string"
               THEN (ToLowerCase(ContentTypeName) :> contentType.v) @@ around.headers
               ELSE around.headers,
   body |-> payload.body,
   parsedBody |-> payload.parsedBody,
   query |-> around.query,
   params |-> around.params,
   cookies |-> around.cookies]

Requests ==
  {Request(c, p, a) : c \in ContentTypes, p \in Payloads, a \in Surroundings}

SelectorRequests ==
  {Request(Str(ApplicationJson), p, a) : p \in {q \in Payloads : q.body = TextX},
                                         a \in {b \in Surroundings : b.cookies.t = "object"}}

----------------------------------------------------------------------------
(* The interpreter *)

NoResult == [mode |-> "none", kind |-> "none", index |-> -1, draw |-> -1,
             evaluations |-> <<>>]

\* the state once the constructor has run
Init ==
  /\ \/ /\ routeResponses \in SingleRuleRoutes
        /\ request \in Requests
        /\ randomResponse = FALSE
        /\ sequentialResponse = FALSE
     \/ /\ routeResponses \in SelectorRoutes
        /\ request \in SelectorRequests
        /\ randomResponse \in BOOLEAN
        /\ sequentialResponse \in BOOLEAN
  /\ targets = extractTargets(request)
  /\ requestNumber = 0
  /\ lastResult = NoResult

\* chooseResponse, random branch
ChooseRandom ==
  /\ requestNumber < MaxRequestNumber
  /\ selectionMode(randomResponse, sequentialResponse) = "random"
  /\ \E draw \in 0..(RandomGrain - 1) :
       lastResult' = returned("random", routeResponses,
                              randomStatus(draw, Len(routeResponses)), draw, <<>>)
  /\ requestNumber' = requestNumber + 1
  /\ UNCHANGED <<routeResponses, request, randomResponse, sequentialResponse, targets>>

\* chooseResponse, sequential branch
ChooseSequential ==
  /\ requestNumber < MaxRequestNumber
  /\ selectionMode(randomResponse, sequentialResponse) = "sequential"
  /\ lastResult' = returned("sequential", routeResponses,
                            sequentialIndex(requestNumber + 1, Len(routeResponses)),
                            -1, <<>>)
  /\ requestNumber' = requestNumber + 1
  /\ UNCHANGED <<routeResponses, request, randomResponse, sequentialResponse, targets>>

\* chooseResponse, rule-based branch
ChooseByRules ==
  /\ requestNumber < MaxRequestNumber
  /\ selectionMode(randomResponse, sequentialResponse) = "rules"
  /\ \E c \in {chooseByRules(routeResponses, requestNumber + 1, request, targets)} :
       /\ lastResult' = c.result
       /\ routeResponses' = c.responses
  /\ requestNumber' = requestNumber + 1
  /\ UNCHANGED <<request, randomResponse, sequentialResponse, targets>>

Next == ChooseRandom \/ ChooseSequential \/ ChooseByRules

Spec == Init /\ [][Next]_vars

----------------------------------------------------------------------------
(* Properties *)

Count == Len(routeResponses)
Called == requestNumber >= 1
Evaluations == {lastResult.evaluations[i] : i \in 1..Len(lastResult.evaluations)}

\* the rule is true for the request and the counter of the last call
RuleHolds(rule) == isValidRule(rule, requestNumber, request, targets).out = "true"

\* the candidate's rule set is non-empty and combines to true
Qualifies(candidate) ==
  /\ Len(candidate.rules) > 0
  /\ IF candidate.rulesOperator = "AND"
     THEN \A i \in 1..Len(candidate.rules) : RuleHolds(candidate.rules[i])
     ELSE \E i \in 1..Len(candidate.rules) : RuleHolds(candidate.rules[i])

\* 0-based index of the first qualifying candidate, 0 when there is none
FirstQualifying ==
  IF \E i \in 1..Count : Qualifies(routeResponses[i])
  THEN (CHOOSE i \in 1..Count :
          /\ Qualifies(routeResponses[i])
          /\ \A j \in 1..(i - 1) : ~Qualifies(routeResponses[j])) - 1
  ELSE 0

\* C1: in rule-based mode, for a non-empty candidate list, chooseResponse
\* returns the first candidate whose rule set is non-empty and combines to
\* true under its combinator, and the candidate at index 0 when none does;
\* the result is always a member of the list.
C1_RuleBasedReturnsFirstMatch ==
  (Called /\ ~randomResponse /\ ~sequentialResponse /\ Count >= 1) =>
    /\ lastResult.kind = "returned"
    /\ lastResult.index \in 0..(Count - 1)
    /\ lastResult.index = FirstQualifying

\* C2: in sequential mode with N >= 1 candidates, the call with counter
\* value c returns the candidate at index (c - 1) mod N: the calls 1, 2, ...
\* walk the indices 0, 1, ..., N-1, 0, 1, ... whatever the rules and the
\* request are (no rule is evaluated).
C2_SequentialRoundRobin ==
  (Called /\ sequentialResponse /\ ~randomResponse /\ Count >= 1) =>
    /\ lastResult.kind = "returned"
    /\ lastResult.index \in 0..(Count - 1)
    /\ \E k \in 0..requestNumber : requestNumber = k * Count + lastResult.index + 1
    /\ lastResult.evaluations = <<>>

\* C2 witness: the third call over two candidates is back at index 0
C2_Witness ==
  /\ sequentialResponse /\ ~randomResponse
  /\ Count = 2 /\ requestNumber = 3
  /\ lastResult.kind = "returned" /\ lastResult.index = 0
  /\ Len(routeResponses[2].rules) > 0

\* C3: one mode governs each call, random before sequential: with the
\* random flag set the random branch runs whatever the sequential flag is,
\* its index is floor(random * count), in [0, count), decided by the draw
\* alone with no rule evaluated, and every index can be drawn; the
\* sequential branch runs only with random unset, the rule-based branch
\* only with both unset.
C3_RandomTakesPrecedence ==
  /\ (Called /\ randomResponse) =>
       /\ lastResult.mode = "random"
       /\ lastResult.evaluations = <<>>
       /\ Count >= 1 =>
            /\ lastResult.kind = "returned"
            /\ lastResult.index \in 0..(Count - 1)
            /\ lastResult.index * RandomGrain <= lastResult.draw * Count
            /\ lastResult.draw * Count < (lastResult.index + 1) * RandomGrain
  /\ (randomResponse /\ Count >= 1 /\ requestNumber < MaxRequestNumber) =>
       \A i \in 0..(Count - 1) : ENABLED (ChooseRandom /\ lastResult'.index = i)
  /\ (Called /\ lastResult.mode = "sequential") => (~randomResponse /\ sequentialResponse)
  /\ (Called /\ lastResult.mode = "rules") => (~randomResponse /\ ~sequentialResponse)
  /\ Called => lastResult.mode \in {"random", "sequential", "rules"}

\* C3 witness: both flags set, second call, the random branch returned the
\* last of two candidates
C3_Witness ==
  /\ randomResponse /\ sequentialResponse
  /\ Count = 2 /\ requestNumber = 2
  /\ lastResult.mode = "random" /\ lastResult.kind = "returned" /\ lastResult.index = 1

\* C4: with an empty candidate list chooseResponse fails with an error in
\* every mode and never returns a value, in particular not undefined.
C4_EmptyListFails ==
  (Called /\ Count = 0) => lastResult.kind = "threw"

MalformedPattern(rule) ==
  /\ rule.operator = "regex"
  /\ ~RegExpCompiles(IF rule.value.t = "null" THEN <<>> ELSE rule.value.v)

\* C5: a regex rule whose pattern is malformed is false for that rule only
\* and never aborts the selection: every evaluation of such a rule answers
\* false, and the call still returns a candidate.
C5_MalformedPatternIsNonMatch ==
  \A e \in Evaluations :
    MalformedPattern(e.rule) => (e.out = "false" /\ lastResult.kind = "returned")

\* C6: a rule with operator null or empty_array and an empty modifier never
\* matches, whatever its target, its value, the request and the counter.
C6_NullWithoutModifierNeverMatches ==
  \A e \in Evaluations :
    (e.rule.operator \in {"null", "empty_array"} /\ e.rule.modifier = <<>>) =>
      e.out # "true"

\* C7: selection is side-effect free: no call changes a candidate, a rule
\* (target, modifier, value, operator), the request or its snapshot.
C7_SelectionIsPure ==
  [][routeResponses' = routeResponses /\ request' = request /\ targets' = targets]_vars

\* C8: for a rule on request_number the resolved value is the counter of
\* the call, with or without modifier: an equals rule whose value is the
\* counter's text matches, a null-operator rule never matches.
C8_RequestNumberResolvesToCounter ==
  \A e \in Evaluations :
    e.rule.target = "request_number" =>
      /\ e.value = Num(requestNumber)
      /\ (e.rule.operator = "equals" /\ e.rule.value = Str(NumToStr(requestNumber))) =>
           e.out = "true"
      /\ e.rule.operator = "null" => e.out # "true"

\* C9: under the equals operator with an array-typed resolved value, the
\* rule is true iff some element, rendered as text, equals the rule's value
\* rendered as text (a null rule value being the empty text).
C9_ArrayEqualsComparesText ==
  \A e \in Evaluations :
    (e.rule.operator = "equals" /\ e.value.t = "array") =>
      (e.out = "true" <=>
         \E i \in 1..Len(e.value.v) :
           String(e.value.v[i]) =
             (IF e.rule.value.t = "null" THEN <<>> ELSE String(e.rule.value)))

\* the request's Content-Type is absent or names no parsed format
UnparsedContentType ==
  LET name == ToLowerCase(ContentTypeName)
  IN \/ name \notin DOMAIN request.headers
     \/ /\ ~Includes(request.headers[name], FormUrlencoded)
        /\ ~Includes(request.headers[name], ApplicationJson)
        /\ ~Includes(request.headers[name], ApplicationXml)
        /\ ~Includes(request.headers[name], TextXml)

\* C10: when the Content-Type is absent or names none of form-urlencoded,
\* JSON, application/xml, text/xml, the body target is an empty structure
\* whatever the parsed body holds: a body rule with a modifier resolves to
\* an absent value, is false under equals, regex and empty_array and true
\* under null; a body rule without modifier reads the raw body text.
C10_UnparsedBodyIsEmpty ==
  UnparsedContentType =>
    /\ targets.body = EmptyObject
    /\ \A e \in Evaluations :
         e.rule.target = "body" =>
           /\ e.rule.modifier # <<>> =>
                /\ e.value = Undefined
                /\ e.rule.operator \in {"equals", "regex", "empty_array"} => e.out = "false"
                /\ e.rule.operator = "null" => e.out = "true"
           /\ e.rule.modifier = <<>> => e.value = Str(request.body)

\* C10 witness: a text/plain request whose parsed body holds "a", and a
\* null rule on body path "a" that was evaluated and matched
C10_Witness ==
  /\ UnparsedContentType
  /\ ToLowerCase(ContentTypeName) \in DOMAIN request.headers
  /\ request.parsedBody.t = "object" /\ TextA \in DOMAIN request.parsedBody.v
  /\ \E e \in Evaluations :
       /\ e.rule.target = "body" /\ e.rule.modifier = TextA
       /\ e.rule.operator = "null" /\ e.out = "true"

====
